---- MODULE Spec2Model ----
(***************************************************************************)
(* A model of the PDF question/answer page (frontend/app/pdf/page.tsx):    *)
(* the conversation controller sendQuestion with its stream read loop, the *)
(* stop and upload handlers, the evidence-marker grammar (HIGHLIGHT_REGEX, *)
(* parseHighlights, cleanHighlightMarkers) and the page filter of the text *)
(* renderer.                                                               *)
(*                                                                         *)
(* Text is a sequence of atoms.  An atom is one character, except that the *)
(* literal words of the marker grammar ("highlight", "page=") and of the   *)
(* rendered citation ("**Page ", ":** ") are one atom each.  The bytes of  *)
(* the response stream are a sequence of wire units: "data:", " ", "{",    *)
(* the name of a JSON body, "}", "[DONE]" and the newline.                 *)
(***************************************************************************)
EXTENDS Integers, Sequences, FiniteSets, TLC

\* null, undefined, the empty string: the falsy values of the page's state
None == ""

\* Highlight.pageNumber when the marker carries no page attribute
Undefined == -1

----------------------------------------------------------------------------
(* Text helpers: character classes of the regular expressions              *)

Space == {" ", "\n"}

Digit == {"0", "1", "2", "3", "4", "5", "6", "7", "8", "9"}

DigitVal(c) ==
    CASE c = "0" -> 0 [] c = "1" -> 1 [] c = "2" -> 2 [] c = "3" -> 3
      [] c = "4" -> 4 [] c = "5" -> 5 [] c = "6" -> 6 [] c = "7" -> 7
      [] c = "8" -> 8 [] c = "9" -> 9

\* parseInt(digits, 10) on a non-empty run of digits
RECURSIVE ParseInt(_)
ParseInt(ds) ==
    IF Len(ds) = 0 THEN 0
    ELSE 10 * ParseInt(SubSeq(ds, 1, Len(ds) - 1)) + DigitVal(ds[Len(ds)])

\* the index that ends the longest run of atoms of S starting at i
RECURSIVE RunEnd(_, _, _)
RunEnd(text, i, S) ==
    IF i > Len(text) \/ text[i] \notin S THEN i ELSE RunEnd(text, i + 1, S)

\* the index that starts the longest run of atoms of S ending at i
RECURSIVE RunStart(_, _, _)
RunStart(text, i, S) ==
    IF i < 1 \/ text[i] \notin S THEN i ELSE RunStart(text, i - 1, S)

\* String.prototype.trim
Trim(text) ==
    SubSeq(text, RunEnd(text, 1, Space), RunStart(text, Len(text), Space))

----------------------------------------------------------------------------
(* HIGHLIGHT_REGEX =                                                       *)
(*   /<<highlight(?:\s+page=(\d+))?>+\s*([\s\S]*?)\s*<+\/highlight>+/g     *)

NoMatch == [ok |-> FALSE, start |-> 0, end |-> 0, page |-> <<>>, body |-> <<>>]

\* a variant that accepts the closing tag only with a doubled "<"
CloseTagDoubled(text, w, lt) ==
    IF /\ lt > w + 1
       /\ lt + 2 <= Len(text)
       /\ text[lt] = "/"
       /\ text[lt + 1] = "highlight"
       /\ text[lt + 2] = ">"
    THEN RunEnd(text, lt + 2, {">"})
    ELSE 0

\* <+\/highlight>+ with its run of "<" ending before lt: the index after the
\* match, 0 when it fails
CloseTag(text, w, lt) ==
    IF /\ lt > w
       /\ lt + 2 <= Len(text)
       /\ text[lt] = "/"
       /\ text[lt + 1] = "highlight"
       /\ text[lt + 2] = ">"
    THEN RunEnd(text, lt + 2, {">"})
    ELSE 0

\* \s*<+\/highlight>+ at p: the index after the match, 0 when it fails
CloseAt(text, p) ==
    LET Tag(w) == CloseTag(text, w, RunEnd(text, w, {"<"}))
    IN  Tag(RunEnd(text, p, Space))

\* the lazy body ([\s\S]*?) ends at the first index at or after p where the
\* closing tag matches: that index, 0 when there is none
RECURSIVE BodyEnd(_, _)
BodyEnd(text, p) ==
    IF p > Len(text) THEN 0
    ELSE IF CloseAt(text, p) # 0 THEN p
    ELSE BodyEnd(text, p + 1)

\* >+\s*([\s\S]*?)\s*<+\/highlight>+ at g, after an opening tag that began at
\* i and carried the digits page
MatchBody(text, i, page, g) ==
    LET Found(b, p) ==
            IF p = 0 THEN NoMatch
            ELSE [ok    |-> TRUE,
                  start |-> i,
                  end   |-> CloseAt(text, p),
                  page  |-> page,
                  body  |-> SubSeq(text, b, p - 1)]
        From(b) == Found(b, BodyEnd(text, b))
    IN  IF g <= Len(text) /\ text[g] = ">"
        THEN From(RunEnd(text, RunEnd(text, g, {">"}), Space))
        ELSE NoMatch

\* (?:\s+page=(\d+))? at j: the attribute is there exactly when whitespace
\* follows the word highlight
MatchAttr(text, i, j) ==
    LET Digits(w, d) ==
            IF d > w + 1 THEN MatchBody(text, i, SubSeq(text, w + 1, d - 1), d)
            ELSE NoMatch
        Attr(w) ==
            IF w <= Len(text) /\ text[w] = "page="
            THEN Digits(w, RunEnd(text, w + 1, Digit))
            ELSE NoMatch
    IN  IF j <= Len(text) /\ text[j] \in Space
        THEN Attr(RunEnd(text, j, Space))
        ELSE MatchBody(text, i, <<>>, j)

\* the whole expression anchored at i
MatchAt(text, i) ==
    IF /\ i + 2 <= Len(text)
       /\ text[i] = "<" /\ text[i + 1] = "<" /\ text[i + 2] = "highlight"
    THEN MatchAttr(text, i, i + 3)
    ELSE NoMatch

\* regex.exec with lastIndex = from: the leftmost match at or after from
RECURSIVE ExecFrom(_, _)
ExecFrom(text, from) ==
    LET Try(m) == IF m.ok THEN m ELSE ExecFrom(text, from + 1)
    IN  IF from > Len(text) THEN NoMatch ELSE Try(MatchAt(text, from))

RECURSIVE ParseFrom(_, _)
ParseFrom(text, from) ==
    LET Found(m, highlightText) ==
            (IF highlightText # <<>>
             THEN <<[text       |-> highlightText,
                     pageNumber |-> IF m.page # <<>> THEN ParseInt(m.page)
                                    ELSE Undefined]>>
             ELSE <<>>)
            \o ParseFrom(text, m.end)
        Loop(m) == IF ~m.ok THEN <<>> ELSE Found(m, Trim(m.body))
    IN  Loop(ExecFrom(text, from))

parseHighlights(text) == ParseFrom(text, 1)

\* a variant that replaces the first marker only (a regex without the g flag)
CleanFromFirstOnly(text, from) ==
    LET Replace(m) ==
            IF ~m.ok THEN SubSeq(text, from, Len(text))
            ELSE SubSeq(text, from, m.start - 1)
                 \o <<"\n", ">", " ">>
                 \o (IF m.page # <<>> THEN <<"**Page ">> \o m.page \o <<":** ">>
                     ELSE <<>>)
                 \o Trim(m.body) \o <<"\n">>
                 \o SubSeq(text, m.end, Len(text))
    IN  Replace(ExecFrom(text, from))

RECURSIVE CleanFrom(_, _)
CleanFrom(text, from) ==
    LET Replace(m) ==
            IF ~m.ok THEN SubSeq(text, from, Len(text))
            ELSE SubSeq(text, from, m.start - 1)
                 \o <<"\n", ">", " ">>
                 \o (IF m.page # <<>> THEN <<"**Page ">> \o m.page \o <<":** ">>
                     ELSE <<>>)
                 \o Trim(m.body) \o <<"\n">>
                 \o CleanFrom(text, m.end)
    IN  Replace(ExecFrom(text, from))

cleanHighlightMarkers(text) == CleanFrom(text, 1)

----------------------------------------------------------------------------
(* Bounds of the model                                                     *)

\* Respond admits a stream only while the transcript stays within this length
MaxMessages == 3

\* slots for turns in flight (sendQuestion invocations that have not returned)
MaxInFlight == 2

\* the longest run of angle brackets in the marker variants tried
MaxRun == 3

\* the most pieces (plain text, markers) of an answer text tried
MaxPieces == 3

\* the longest string normalize is tried on, character by character
MaxChars == 5

----------------------------------------------------------------------------
(* Inputs: files, typed text, answer texts, stream events and streams      *)

Files == {"a.pdf", "notes.txt"}

\* file.name.endsWith(".pdf")
EndsWithPdf(f) == f = "a.pdf"

\* the page count the renderer reports for a file
PagesOf(f) == IF f = "a.pdf" THEN 3 ELSE 0

\* what the user can leave in the textarea
Inputs == {<<>>, <<" ">>, <<"q">>}

Mk(pg, body) ==
    <<"<", "<", "highlight">>
    \o (IF pg = <<>> THEN <<>> ELSE <<" ", "page=">> \o pg)
    \o <<">", ">">> \o body \o <<"<", "<", "/", "highlight", ">", ">">>

\* "a <<highlight page=2>>x<</highlight>>"
TextPaged == <<"a", " ">> \o Mk(<<"2">>, <<"x">>)

\* an answer delta: evidence without a page, then pages 3 and 1
TextThree == Mk(<<>>, <<"x">>) \o Mk(<<"3">>, <<"y">>) \o Mk(<<"1">>, <<"z">>)

\* page attributes outside the document: 0 and 4
TextOutOfRange == Mk(<<"0">>, <<"x">>) \o Mk(<<"4">>, <<"y">>)

\* "Net sales were $5M"
SalesText ==
    <<"N", "e", "t", " ", "s", "a", "l", "e", "s", " ", "w", "e", "r", "e", " ",
      "$", "5", "M">>

\* "a <<highlight page=3>>Net sales were $5M<</highlight>> b"
TextSales == <<"a", " ">> \o Mk(<<"3">>, SalesText) \o <<" ", "b">>

\* a closed marker inside the body of a closed marker:
\* "<<highlight>>a <<highlight>>b<</highlight>> c<</highlight>>"
NestedText == Mk(<<>>, <<"a", " ">> \o Mk(<<>>, <<"b">>) \o <<" ", "c">>)

\* "<<highlight>>the x<</highlight>>"
TextThe == Mk(<<>>, <<"t", "h", "e", " ", "x">>)

\* a parsed JSON record; hasContent tells a content of "" from no content field
Ev(type, content, sid, err) ==
    [type |-> type, content |-> content, hasContent |-> content # <<>>,
     session_id |-> sid, error |-> err]

\* the JSON bodies the server sends, by name
Body ==
    [n \in {"think", "text_a", "text_b", "text_3", "complete_paged_s1",
            "complete_bare", "complete_empty", "complete_plain_s2",
            "complete_range", "complete_the", "complete_sales",
            "complete_nested", "error"} |->
        CASE n = "think"             -> Ev("thinking", <<"r">>, None, None)
          [] n = "text_a"            -> Ev("text", <<"a">>, None, None)
          [] n = "text_b"            -> Ev("text", <<"b">>, None, None)
          [] n = "text_3"            -> Ev("text", TextThree, None, None)
          [] n = "complete_paged_s1" -> Ev("complete", TextPaged, "s1", None)
          [] n = "complete_bare"     -> Ev("complete", <<>>, None, None)
          [] n = "complete_empty"    -> [Ev("complete", <<>>, None, None)
                                            EXCEPT !.hasContent = TRUE]
          [] n = "complete_plain_s2" -> Ev("complete", <<"a">>, "s2", None)
          [] n = "complete_range"    -> Ev("complete", TextOutOfRange, None, None)
          [] n = "complete_the"      -> Ev("complete", TextThe, None, None)
          [] n = "complete_sales"    -> Ev("complete", TextSales, None, None)
          [] n = "complete_nested"   -> Ev("complete", NestedText, None, None)
          [] n = "error"             -> Ev("error", <<>>, None, "failed")]

DataLine(n) == <<"data:", " ", "{", n, "}", "\n">>

DoneLine == <<"data:", " ", "[DONE]", "\n">>

\* a payload cut before its closing brace
BrokenLine == <<"data:", " ", "{", "text_a", "\n">>

BlankLine == <<"\n">>

Scripts == {"answer", "fallback", "error_first", "garbled", "cut_short", "twice",
            "empty_final", "cited"}

\* the lines of each response stream
LinesOf(s) ==
    CASE s = "answer"      -> <<DataLine("think"), DataLine("text_a"),
                                DataLine("complete_paged_s1")>>
      [] s = "fallback"    -> <<DataLine("text_3"), BlankLine, DataLine("complete_bare")>>
      [] s = "error_first" -> <<DataLine("error"), DataLine("complete_nested"),
                                DoneLine>>
      [] s = "garbled"     -> <<BrokenLine, DataLine("complete_range")>>
      [] s = "cut_short"   -> <<DataLine("text_a"), DataLine("text_b")>>
      [] s = "twice"       -> <<DataLine("complete_paged_s1"),
                                DataLine("complete_plain_s2")>>
      [] s = "empty_final" -> <<DataLine("text_a"), DataLine("complete_empty")>>
      [] s = "cited"       -> <<DataLine("complete_the"), DataLine("complete_sales")>>

RECURSIVE Flatten(_)
Flatten(ls) == IF ls = <<>> THEN <<>> ELSE Head(ls) \o Flatten(Tail(ls))

StreamOf(s) == Flatten(LinesOf(s))

\* the most messages a stream can add to the transcript
GrowthOf(s) ==
    CASE s = "answer" -> 2 [] s = "fallback" -> 1 [] s = "error_first" -> 1
      [] s = "garbled" -> 1 [] s = "cut_short" -> 0 [] s = "twice" -> 2
      [] s = "empty_final" -> 1 [] s = "cited" -> 2

----------------------------------------------------------------------------
VARIABLES
    pdfFile,            \* useState<File | null>
    docPending,         \* <Document file={pdfUrl}> has not yet called onLoadSuccess
    numPages,
    currentPage,
    messages,
    inputMessage,
    isLoading,
    currentThinking,
    currentResponse,
    sdkSessionId,
    highlights,
    abortControllerRef, \* slot of the turn whose AbortController the ref holds, 0 = null
    turns,              \* the sendQuestion invocations, by slot (the fields from
                        \* script on are history)
    lastAnswer,         \* history: final text of the latest applied complete event
    lastSid,            \* history: latest session id a complete event carried
    askedSinceLoad,     \* history: a question was sent since the last file load
    lastOutcome         \* history: how the latest finished turn ended

vars ==
    <<pdfFile, docPending, numPages, currentPage, messages, inputMessage, isLoading,
      currentThinking, currentResponse, sdkSessionId, highlights, abortControllerRef,
      turns, lastAnswer, lastSid, askedSinceLoad, lastOutcome>>

Slots == 1..MaxInFlight

NoAnswer == [some |-> FALSE, text |-> <<>>]

\* a slot that holds no turn
IdleTurn ==
    [pc |-> "idle", file |-> None, question |-> <<>>, sid |-> None, wire |-> <<>>,
     fullResponse |-> <<>>, fullThinking |-> <<>>,
     script |-> None, applied |-> 0, sawError |-> FALSE, base |-> <<>>,
     first |-> FALSE, heldSid |-> None, reloaded |-> FALSE, completed |-> FALSE,
     thinkingDeltas |-> <<>>, textDeltas |-> <<>>]

InFlight == {t \in Slots : turns[t].pc # "idle"}

\* promise reactions (the catch/finally of an aborted turn) run at the microtask
\* checkpoint, before the event loop takes the next event
Quiescent == \A t \in Slots : turns[t].pc # "aborted"

Init ==
    /\ pdfFile = None
    /\ docPending = FALSE
    /\ numPages = 0
    /\ currentPage = 1
    /\ messages = <<>>
    /\ inputMessage = <<>>
    /\ isLoading = FALSE
    /\ currentThinking = <<>>
    /\ currentResponse = <<>>
    /\ sdkSessionId = None
    /\ highlights = <<>>
    /\ abortControllerRef = 0
    /\ turns = [t \in Slots |-> IdleTurn]
    /\ lastAnswer = NoAnswer
    /\ lastSid = None
    /\ askedSinceLoad = FALSE
    /\ lastOutcome = "none"

----------------------------------------------------------------------------
(* The text renderer: normalize and customTextRenderer                     *)

UpperCase ==
    <<"A", "B", "C", "D", "E", "F", "G", "H", "I", "J", "K", "L", "M",
      "N", "O", "P", "Q", "R", "S", "T", "U", "V", "W", "X", "Y", "Z">>

LowerCase ==
    <<"a", "b", "c", "d", "e", "f", "g", "h", "i", "j", "k", "l", "m",
      "n", "o", "p", "q", "r", "s", "t", "u", "v", "w", "x", "y", "z">>

\* the characters of an atom
Chars(a) ==
    CASE a = "highlight" -> <<"h", "i", "g", "h", "l", "i", "g", "h", "t">>
      [] a = "page="     -> <<"p", "a", "g", "e", "=">>
      [] OTHER           -> <<a>>

RECURSIVE Explode(_)
Explode(text) ==
    IF text = <<>> THEN <<>> ELSE Chars(Head(text)) \o Explode(Tail(text))

\* String.prototype.toLowerCase
toLowerCase(text) ==
    [i \in 1..Len(text) |->
        IF \E k \in 1..26 : UpperCase[k] = text[i]
        THEN LowerCase[CHOOSE k \in 1..26 : UpperCase[k] = text[i]]
        ELSE text[i]]

\* the characters that /[^a-z0-9\s]/g leaves in place
Kept == {LowerCase[k] : k \in 1..26} \cup Digit \cup Space

\* .replace(/\s+/g, " ")
RECURSIVE CollapseFrom(_, _)
CollapseFrom(text, i) ==
    IF i > Len(text) THEN <<>>
    ELSE IF text[i] \in Space
         THEN <<" ">> \o CollapseFrom(text, RunEnd(text, i, Space))
         ELSE <<text[i]>> \o CollapseFrom(text, i + 1)

\* a variant that collapses the white space before it strips the punctuation
NormalizeCollapseFirst(s) ==
    Trim(SelectSeq(CollapseFrom(toLowerCase(Explode(s)), 1), LAMBDA c : c \in Kept))

\* s.toLowerCase().replace(/[^a-z0-9\s]/g, "").replace(/\s+/g, " ").trim()
normalize(s) ==
    Trim(CollapseFrom(SelectSeq(toLowerCase(Explode(s)), LAMBDA c : c \in Kept), 1))

\* a.includes(b)
Includes(a, b) ==
    \E i \in 0..(Len(a) - Len(b)) : SubSeq(a, i + 1, i + Len(b)) = b

\* text.split(" ")
RECURSIVE SplitSpace(_, _, _)
SplitSpace(text, i, word) ==
    IF i > Len(text) THEN <<word>>
    ELSE IF text[i] = " " THEN <<word>> \o SplitSpace(text, i + 1, <<>>)
    ELSE SplitSpace(text, i + 1, Append(word, text[i]))

\* text.split(" ").filter(w => w.length >= 4)
Words(text) == SelectSeq(SplitSpace(text, 1, <<>>), LAMBDA w : Len(w) >= 4)

\* a variant whose word test passes when some word of the fragment matches
MatchesHighlightAnyWord(strNorm, hNorm) ==
    \/ Includes(hNorm, strNorm)
    \/ Includes(strNorm, hNorm)
    \/ LET hWords == Words(hNorm)
           sWords == Words(strNorm)
       IN  \E i \in 1..Len(sWords) :
               \E k \in 1..Len(hWords) :
                   \/ Includes(hWords[k], sWords[i])
                   \/ Includes(sWords[i], hWords[k])

\* a variant whose word test passes for a fragment without words
MatchesHighlightVacuous(strNorm, hNorm) ==
    \/ Includes(hNorm, strNorm)
    \/ Includes(strNorm, hNorm)
    \/ LET hWords == Words(hNorm)
           sWords == Words(strNorm)
       IN  \A i \in 1..Len(sWords) :
               \E k \in 1..Len(hWords) :
                   \/ Includes(hWords[k], sWords[i])
                   \/ Includes(sWords[i], hWords[k])

\* the callback of pageHighlights.some
MatchesHighlight(strNorm, hNorm) ==
    \/ Includes(hNorm, strNorm)
    \/ Includes(strNorm, hNorm)
    \/ LET hWords == Words(hNorm)
           sWords == Words(strNorm)
       IN  /\ Len(sWords) > 0
           /\ \A i \in 1..Len(sWords) :
                  \E k \in 1..Len(hWords) :
                      \/ Includes(hWords[k], sWords[i])
                      \/ Includes(sWords[i], hWords[k])

\* a page number that passes `if (h.pageNumber)`
Truthy(n) == n # Undefined /\ n # 0

\* a variant of the page filter that keeps every highlight
UnfilteredHighlights(hs, page) == hs

\* highlights.filter(h => !h.pageNumber || h.pageNumber === currentPage)
PageHighlights(hs, page) ==
    SelectSeq(hs, LAMBDA h : ~Truthy(h.pageNumber) \/ h.pageNumber = page)

\* isHighlighted for the fragment str, with the highlights hs, on the page
IsHighlighted(str, hs, page) ==
    LET Some(strNorm, pageHighlights) ==
            /\ Len(pageHighlights) # 0
            /\ \E i \in 1..Len(pageHighlights) :
                   MatchesHighlight(strNorm, normalize(pageHighlights[i].text))
        Filter(strNorm) ==
            IF Len(strNorm) < 3 THEN FALSE
            ELSE Some(strNorm, PageHighlights(hs, page))
    IN  Filter(normalize(str))

\* the renderer of the displayed page marks the fragment str
customTextRenderer(str) == IsHighlighted(str, highlights, currentPage)

----------------------------------------------------------------------------
(* The stream read loop of sendQuestion: decoding                          *)

\* chunk.split("\n")
RECURSIVE Split(_)
Split(chunk) ==
    LET nl == {i \in 1..Len(chunk) : chunk[i] = "\n"}
        i  == CHOOSE k \in nl : \A m \in nl : k <= m
    IN  IF nl = {} THEN <<chunk>>
        ELSE <<SubSeq(chunk, 1, i - 1)>> \o Split(SubSeq(chunk, i + 1, Len(chunk)))

\* line.startsWith("data: ")
StartsWithData(line) == Len(line) >= 2 /\ line[1] = "data:" /\ line[2] = " "

\* JSON.parse(data): a complete object parses, anything else throws
JSONParse(data) ==
    IF Len(data) = 3 /\ data[1] = "{" /\ data[3] = "}" /\ data[2] \in DOMAIN Body
    THEN [ok |-> TRUE, event |-> Body[data[2]]]
    ELSE [ok |-> FALSE, event |-> Ev(None, <<>>, None, None)]

\* what one line of a chunk gives the switch: an event, or nothing
DecodeLine(line) ==
    LET data == SubSeq(line, 3, Len(line))
    IN  IF ~StartsWithData(line) THEN [ok |-> FALSE, event |-> Ev(None, <<>>, None, None)]
        ELSE IF data = <<"[DONE]">> THEN [ok |-> FALSE, event |-> Ev(None, <<>>, None, None)]
        ELSE JSONParse(data)

----------------------------------------------------------------------------
(* The stream read loop of sendQuestion: the switch on event.type          *)

\* a variant that navigates to the numerically smallest page
SmallestPageHighlight(hs) ==
    LET is == {i \in 1..Len(hs) : Truthy(hs[i].pageNumber)}
    IN  IF is = {} THEN 0
        ELSE CHOOSE i \in is : \A k \in is : hs[i].pageNumber <= hs[k].pageNumber

\* newHighlights.find(h => h.pageNumber): its index, 0 when there is none
FirstPageHighlight(hs) ==
    LET is == {i \in 1..Len(hs) : Truthy(hs[i].pageNumber)}
    IN  IF is = {} THEN 0 ELSE CHOOSE i \in is : \A k \in is : i <= k

\* fullResponse = event.content || fullResponse
FinalText(event, fullResponse) ==
    IF event.content # <<>> THEN event.content ELSE fullResponse

\* a variant that merges the new evidence into the old
MergedHighlights(prev, fullResponse) == prev \o parseHighlights(fullResponse)

\* setHighlights(parseHighlights(fullResponse))
NewHighlights(prev, fullResponse) == parseHighlights(fullResponse)

\* a variant that stores whatever the event carries
OverwrittenSession(prev, event) == event.session_id

\* if (event.session_id) setSdkSessionId(event.session_id)
NewSession(prev, event) ==
    IF event.session_id # None THEN event.session_id ELSE prev

\* a variant that empties the transcript on a server error
OnErrorClears(c, event) == [c EXCEPT !.messages = <<>>]

\* a variant that records the error in the transcript
OnErrorAppends(c, event) ==
    [c EXCEPT !.messages =
        Append(c.messages, [role |-> "assistant", content |-> <<event.error>>])]

\* case "error": toast.error(...); break
OnError(c, event) == c

OnThinking(c, event) ==
    [c EXCEPT !.fullThinking = c.fullThinking \o event.content,
              !.currentThinking = c.fullThinking \o event.content]

\* a variant that publishes the latest delta alone
OnTextOverwrites(c, event) ==
    [c EXCEPT !.fullResponse = c.fullResponse \o event.content,
              !.currentResponse = event.content]

OnText(c, event) ==
    [c EXCEPT !.fullResponse = c.fullResponse \o event.content,
              !.currentResponse = c.fullResponse \o event.content]

\* a variant that appends no answer message for an empty final text
CompleteMessagesNonEmpty(fullThinking, fullResponse) ==
    (IF fullThinking # <<>>
     THEN <<[role |-> "thinking", content |-> fullThinking]>>
     ELSE <<>>)
    \o (IF fullResponse # <<>>
        THEN <<[role |-> "assistant", content |-> cleanHighlightMarkers(fullResponse)]>>
        ELSE <<>>)

\* the messages the complete case appends: the thinking message if
\* (fullThinking), then the assistant message
CompleteMessages(fullThinking, fullResponse) ==
    (IF fullThinking # <<>>
     THEN <<[role |-> "thinking", content |-> fullThinking]>>
     ELSE <<>>)
    \o <<[role |-> "assistant", content |-> cleanHighlightMarkers(fullResponse)]>>

\* each local of the case is bound once: fullResponse, newHighlights,
\* firstPageHighlight
OnComplete(c, event) ==
    LET Rest(fr, nh, fp) ==
            [c EXCEPT
                !.fullResponse = fr,
                !.sdkSessionId = NewSession(c.sdkSessionId, event),
                !.highlights = nh,
                !.currentPage = IF fp # 0 THEN nh[fp].pageNumber ELSE c.currentPage,
                !.messages = c.messages \o CompleteMessages(c.fullThinking, fr),
                !.currentThinking = <<>>,
                !.currentResponse = <<>>]
        Navigate(fr, nh) == Rest(fr, nh, FirstPageHighlight(nh))
        Extract(fr) == Navigate(fr, NewHighlights(c.highlights, fr))
    IN  Extract(FinalText(event, c.fullResponse))

ApplyEvent(c, event) ==
    CASE event.type = "thinking" -> OnThinking(c, event)
      [] event.type = "text"     -> OnText(c, event)
      [] event.type = "complete" -> OnComplete(c, event)
      [] event.type = "error"    -> OnError(c, event)
      [] OTHER                   -> c

\* history of the events applied, kept beside the state the code changes
Observe(c2, c, event) ==
    LET done == event.type = "complete"
    IN  [c2 EXCEPT !.applied = c.applied + 1,
                   !.sawError = c.sawError \/ event.type = "error",
                   !.completed = c.completed \/ done,
                   !.thinkingDeltas =
                       IF event.type = "thinking"
                       THEN c.thinkingDeltas \o event.content ELSE c.thinkingDeltas,
                   !.textDeltas =
                       IF event.type = "text"
                       THEN c.textDeltas \o event.content ELSE c.textDeltas,
                   !.lastAnswer =
                       IF done
                       THEN [some |-> TRUE,
                             text |-> IF event.content # <<>> THEN event.content
                                      ELSE c.fullResponse]
                       ELSE c.lastAnswer,
                   !.lastSid = IF done /\ event.session_id # None
                               THEN event.session_id ELSE c.lastSid]

ProcessLine(c, line) ==
    LET d == DecodeLine(line)
    IN  IF d.ok THEN Observe(ApplyEvent(c, d.event), c, d.event) ELSE c

\* for (const line of lines) { ... }
RECURSIVE ProcessLines(_, _)
ProcessLines(c, lines) ==
    IF lines = <<>> THEN c
    ELSE ProcessLines(ProcessLine(c, Head(lines)), Tail(lines))

\* the state the loop body reads and writes, for the turn in slot t
Ctx(t) ==
    [messages        |-> messages,
     currentThinking |-> currentThinking,
     currentResponse |-> currentResponse,
     sdkSessionId    |-> sdkSessionId,
     highlights      |-> highlights,
     currentPage     |-> currentPage,
     fullResponse    |-> turns[t].fullResponse,
     fullThinking    |-> turns[t].fullThinking,
     applied         |-> turns[t].applied,
     sawError        |-> turns[t].sawError,
     completed       |-> turns[t].completed,
     thinkingDeltas  |-> turns[t].thinkingDeltas,
     textDeltas      |-> turns[t].textDeltas,
     lastAnswer      |-> lastAnswer,
     lastSid         |-> lastSid]

----------------------------------------------------------------------------
(* Handlers                                                                *)

\* setPdfFile, setPdfUrl, setMessages([]), setHighlights([]), setSdkSessionId(null)
HandleFileUpload(f) ==
    /\ Quiescent
    /\ EndsWithPdf(f)
    /\ pdfFile' = f
    /\ docPending' = TRUE
    /\ messages' = <<>>
    /\ highlights' = <<>>
    /\ sdkSessionId' = None
    /\ turns' = [t \in Slots |->
                    IF turns[t].pc = "idle" THEN turns[t]
                    ELSE [turns[t] EXCEPT !.reloaded = TRUE]]
    /\ lastAnswer' = NoAnswer
    /\ lastSid' = None
    /\ askedSinceLoad' = FALSE
    /\ UNCHANGED <<numPages, currentPage, inputMessage, isLoading, currentThinking,
                   currentResponse, abortControllerRef, lastOutcome>>

OnDocumentLoadSuccess ==
    /\ Quiescent
    /\ docPending
    /\ docPending' = FALSE
    /\ numPages' = PagesOf(pdfFile)
    /\ currentPage' = 1
    /\ UNCHANGED <<pdfFile, messages, inputMessage, isLoading, currentThinking,
                   currentResponse, sdkSessionId, highlights, abortControllerRef,
                   turns, lastAnswer, lastSid, askedSinceLoad, lastOutcome>>

\* a variant whose input stays enabled while a turn is in flight
InputEnabledWhileLoading == pdfFile # None

\* the textarea has disabled={isLoading || !pdfFile}, and the send button is
\* rendered only while !isLoading (the stop button takes its place)
InputEnabled == ~isLoading /\ pdfFile # None

\* onChange of the textarea
TypeInput(s) ==
    /\ Quiescent
    /\ InputEnabled
    /\ s # inputMessage
    /\ inputMessage' = s
    /\ UNCHANGED <<pdfFile, docPending, numPages, currentPage, messages, isLoading,
                   currentThinking, currentResponse, sdkSessionId, highlights,
                   abortControllerRef, turns, lastAnswer, lastSid, askedSinceLoad,
                   lastOutcome>>

\* the multipart form of POST /pdf/ask
RequestForm(sid, file, question) ==
    [file           |-> IF sid = None THEN file ELSE None,
     question       |-> question,
     sdk_session_id |-> sid]

\* sendQuestion up to `await fetch(...)`
SendQuestion ==
    /\ Quiescent
    /\ InputEnabled
    /\ Trim(inputMessage) # <<>>
    /\ pdfFile # None
    /\ Len(messages) < MaxMessages
    /\ \E t \in Slots :
        /\ turns[t].pc = "idle"
        /\ \A u \in Slots : turns[u].pc = "idle" => t <= u
        /\ LET form == RequestForm(sdkSessionId, pdfFile, inputMessage)
           IN  turns' = [turns EXCEPT ![t] =
                   [IdleTurn EXCEPT !.pc = "fetch",
                                    !.file = form.file,
                                    !.question = form.question,
                                    !.sid = form.sdk_session_id,
                                    !.base = messages,
                                    !.first = ~askedSinceLoad,
                                    !.heldSid = lastSid]]
        /\ abortControllerRef' = t
    /\ inputMessage' = <<>>
    /\ isLoading' = TRUE
    /\ currentThinking' = <<>>
    /\ currentResponse' = <<>>
    /\ messages' = Append(messages, [role |-> "user", content |-> inputMessage])
    /\ askedSinceLoad' = TRUE
    /\ lastOutcome' = "none"
    /\ UNCHANGED <<pdfFile, docPending, numPages, currentPage, sdkSessionId,
                   highlights, lastAnswer, lastSid>>

\* fetch rejects, or the response is not ok: catch (toast), finally
FetchFails(t) ==
    /\ Quiescent
    /\ turns[t].pc = "fetch"
    /\ isLoading' = FALSE
    /\ turns' = [turns EXCEPT ![t] = IdleTurn]
    /\ lastOutcome' = "failed"
    /\ UNCHANGED <<pdfFile, docPending, numPages, currentPage, messages, inputMessage,
                   currentThinking, currentResponse, sdkSessionId, highlights,
                   abortControllerRef, lastAnswer, lastSid, askedSinceLoad>>

\* the response arrives with response.ok; s is the stream the server will send
Respond(t, s) ==
    /\ Quiescent
    /\ turns[t].pc = "fetch"
    /\ Len(messages) + GrowthOf(s) <= MaxMessages
    /\ turns' = [turns EXCEPT ![t].pc = "read", ![t].wire = StreamOf(s),
                              ![t].script = s]
    /\ UNCHANGED <<pdfFile, docPending, numPages, currentPage, messages, inputMessage,
                   isLoading, currentThinking, currentResponse, sdkSessionId,
                   highlights, abortControllerRef, lastAnswer, lastSid,
                   askedSinceLoad, lastOutcome>>

\* reader.read() resolves with a chunk: the next k units of the stream
Read(t, k) ==
    /\ Quiescent
    /\ turns[t].pc = "read"
    /\ k \in 1..Len(turns[t].wire)
    /\ \E c \in {ProcessLines(Ctx(t), Split(SubSeq(turns[t].wire, 1, k)))} :
           /\ messages' = c.messages
           /\ currentThinking' = c.currentThinking
           /\ currentResponse' = c.currentResponse
           /\ sdkSessionId' = c.sdkSessionId
           /\ highlights' = c.highlights
           /\ currentPage' = c.currentPage
           /\ lastAnswer' = c.lastAnswer
           /\ lastSid' = c.lastSid
           /\ turns' = [turns EXCEPT
                   ![t].wire = SubSeq(turns[t].wire, k + 1, Len(turns[t].wire)),
                   ![t].fullResponse = c.fullResponse,
                   ![t].fullThinking = c.fullThinking,
                   ![t].applied = c.applied,
                   ![t].sawError = c.sawError,
                   ![t].completed = c.completed,
                   ![t].thinkingDeltas = c.thinkingDeltas,
                   ![t].textDeltas = c.textDeltas]
    /\ UNCHANGED <<pdfFile, docPending, numPages, inputMessage, isLoading,
                   abortControllerRef, askedSinceLoad, lastOutcome>>

\* reader.read() rejects (the connection drops): catch (toast), finally
ReadFails(t) ==
    /\ Quiescent
    /\ turns[t].pc = "read"
    /\ isLoading' = FALSE
    /\ turns' = [turns EXCEPT ![t] = IdleTurn]
    /\ lastOutcome' = "failed"
    /\ UNCHANGED <<pdfFile, docPending, numPages, currentPage, messages, inputMessage,
                   currentThinking, currentResponse, sdkSessionId, highlights,
                   abortControllerRef, lastAnswer, lastSid, askedSinceLoad>>

\* a variant whose finally block leaves the loading flag set
StreamEndKeepsLoading(t) ==
    /\ Quiescent
    /\ turns[t].pc = "read"
    /\ turns[t].wire = <<>>
    /\ turns' = [turns EXCEPT ![t] = IdleTurn]
    /\ lastOutcome' = "ended"
    /\ UNCHANGED <<pdfFile, docPending, numPages, currentPage, messages, inputMessage,
                   isLoading, currentThinking, currentResponse, sdkSessionId,
                   highlights, abortControllerRef, lastAnswer, lastSid,
                   askedSinceLoad>>

\* reader.read() resolves with done: break, finally
StreamEnd(t) ==
    /\ Quiescent
    /\ turns[t].pc = "read"
    /\ turns[t].wire = <<>>
    /\ isLoading' = FALSE
    /\ turns' = [turns EXCEPT ![t] = IdleTurn]
    /\ lastOutcome' = "ended"
    /\ UNCHANGED <<pdfFile, docPending, numPages, currentPage, messages, inputMessage,
                   currentThinking, currentResponse, sdkSessionId, highlights,
                   abortControllerRef, lastAnswer, lastSid, askedSinceLoad>>

\* a variant of stopGeneration that commits the partial answer
StopGenerationCommits ==
    /\ Quiescent
    /\ isLoading
    /\ turns' = [t \in Slots |->
                    IF t = abortControllerRef /\ turns[t].pc \in {"fetch", "read"}
                    THEN [turns[t] EXCEPT !.pc = "aborted"]
                    ELSE turns[t]]
    /\ isLoading' = FALSE
    /\ currentThinking' = <<>>
    /\ currentResponse' = <<>>
    /\ messages' = IF currentResponse # <<>>
                   THEN Append(messages, [role |-> "assistant",
                                          content |-> currentResponse])
                   ELSE messages
    /\ UNCHANGED <<pdfFile, docPending, numPages, currentPage, inputMessage,
                   sdkSessionId, highlights, abortControllerRef, lastAnswer, lastSid,
                   askedSinceLoad, lastOutcome>>

\* the stop button, shown while isLoading
StopGeneration ==
    /\ Quiescent
    /\ isLoading
    /\ turns' = [t \in Slots |->
                    IF t = abortControllerRef /\ turns[t].pc \in {"fetch", "read"}
                    THEN [turns[t] EXCEPT !.pc = "aborted"]
                    ELSE turns[t]]
    /\ isLoading' = FALSE
    /\ currentThinking' = <<>>
    /\ currentResponse' = <<>>
    /\ UNCHANGED <<pdfFile, docPending, numPages, currentPage, messages, inputMessage,
                   sdkSessionId, highlights, abortControllerRef, lastAnswer, lastSid,
                   askedSinceLoad, lastOutcome>>

\* the pending fetch or read of an aborted turn rejects with AbortError:
\* catch (nothing), finally
AbortUnwind(t) ==
    /\ turns[t].pc = "aborted"
    /\ isLoading' = FALSE
    /\ turns' = [turns EXCEPT ![t] = IdleTurn]
    /\ lastOutcome' = "aborted"
    /\ UNCHANGED <<pdfFile, docPending, numPages, currentPage, messages, inputMessage,
                   currentThinking, currentResponse, sdkSessionId, highlights,
                   abortControllerRef, lastAnswer, lastSid, askedSinceLoad>>

Max(a, b) == IF a >= b THEN a ELSE b

Min(a, b) == IF a <= b THEN a ELSE b

\* the toolbar is rendered once pdfUrl is set; disabled={currentPage <= 1}
PageBack ==
    /\ Quiescent
    /\ pdfFile # None
    /\ ~(currentPage <= 1)
    /\ currentPage' = Max(1, currentPage - 1)
    /\ UNCHANGED <<pdfFile, docPending, numPages, messages, inputMessage, isLoading,
                   currentThinking, currentResponse, sdkSessionId, highlights,
                   abortControllerRef, turns, lastAnswer, lastSid, askedSinceLoad,
                   lastOutcome>>

\* a variant of the forward button that is neither disabled nor clamped
PageForwardUnbounded ==
    /\ Quiescent
    /\ pdfFile # None
    /\ currentPage <= numPages
    /\ currentPage' = currentPage + 1
    /\ UNCHANGED <<pdfFile, docPending, numPages, messages, inputMessage, isLoading,
                   currentThinking, currentResponse, sdkSessionId, highlights,
                   abortControllerRef, turns, lastAnswer, lastSid, askedSinceLoad,
                   lastOutcome>>

\* disabled={currentPage >= numPages}
PageForward ==
    /\ Quiescent
    /\ pdfFile # None
    /\ ~(currentPage >= numPages)
    /\ currentPage' = Min(numPages, currentPage + 1)
    /\ UNCHANGED <<pdfFile, docPending, numPages, messages, inputMessage, isLoading,
                   currentThinking, currentResponse, sdkSessionId, highlights,
                   abortControllerRef, turns, lastAnswer, lastSid, askedSinceLoad,
                   lastOutcome>>

Next ==
    \/ \E f \in Files : HandleFileUpload(f)
    \/ OnDocumentLoadSuccess
    \/ \E s \in Inputs : TypeInput(s)
    \/ SendQuestion
    \/ \E t \in Slots : FetchFails(t)
    \/ \E t \in Slots, s \in Scripts : Respond(t, s)
    \/ \E t \in Slots : \E k \in 1..Len(turns[t].wire) : Read(t, k)
    \/ \E t \in Slots : ReadFails(t)
    \/ \E t \in Slots : StreamEnd(t)
    \/ StopGeneration
    \/ \E t \in Slots : AbortUnwind(t)
    \/ PageBack
    \/ PageForward

Spec == Init /\ [][Next]_vars

\* the streams of the runs that follow a turn to its end: one that carries a
\* complete event, one that closes without it, one that carries an error event
LiveScripts == {"answer", "cut_short", "error_first"}

LiveNext ==
    \/ \E f \in Files : HandleFileUpload(f)
    \/ OnDocumentLoadSuccess
    \/ \E s \in Inputs : TypeInput(s)
    \/ SendQuestion
    \/ \E t \in Slots : FetchFails(t)
    \/ \E t \in Slots, s \in LiveScripts : Respond(t, s)
    \/ \E t \in Slots : \E k \in 1..Len(turns[t].wire) : Read(t, k)
    \/ \E t \in Slots : ReadFails(t)
    \/ \E t \in Slots : StreamEnd(t)
    \/ StopGeneration
    \/ \E t \in Slots : AbortUnwind(t)
    \/ PageBack
    \/ PageForward

\* the awaits of a turn settle: fetch resolves or rejects, every read() resolves
\* with a chunk, resolves with done or rejects, and the rejection of an aborted
\* await is delivered
TurnSettles(t) ==
    /\ WF_vars(FetchFails(t) \/ \E s \in LiveScripts : Respond(t, s))
    /\ WF_vars(\/ \E k \in 1..Len(turns[t].wire) : Read(t, k)
               \/ ReadFails(t)
               \/ StreamEnd(t))
    /\ WF_vars(AbortUnwind(t))

LiveSpec == Init /\ [][LiveNext]_vars /\ \A t \in Slots : TurnSettles(t)

----------------------------------------------------------------------------
(* Properties                                                              *)

Reading == {t \in Slots : turns[t].pc = "read"}

CompleteEvents == {Body[n] : n \in {"complete_paged_s1", "complete_bare",
                                    "complete_empty", "complete_plain_s2",
                                    "complete_range", "complete_the",
                                    "complete_sales", "complete_nested"}}

UserMessage(t) == [role |-> "user", content |-> turns[t].question]

\* the event of the line at the head of the stream of turn t, which the next
\* chunk applies when it delivers the whole line
PendingEvent(t) ==
    IF Len(turns[t].wire) >= 6 /\ turns[t].wire[6] = "\n"
    THEN DecodeLine(SubSeq(turns[t].wire, 1, 5))
    ELSE [ok |-> FALSE, event |-> Ev(None, <<>>, None, None)]

\* the turns whose next line is a complete event
Completing == {t \in Reading : PendingEvent(t).ok /\ PendingEvent(t).event.type = "complete"}

\* what the loop body sees at the start of the first turn
FreshCtx ==
    [messages        |-> <<>>,
     currentThinking |-> <<>>,
     currentResponse |-> <<>>,
     sdkSessionId    |-> None,
     highlights      |-> <<>>,
     currentPage     |-> 1,
     fullResponse    |-> <<>>,
     fullThinking    |-> <<>>,
     applied         |-> 0,
     sawError        |-> FALSE,
     completed       |-> FALSE,
     thinkingDeltas  |-> <<>>,
     textDeltas      |-> <<>>,
     lastAnswer      |-> NoAnswer,
     lastSid         |-> None]

\* the events the decoder yields when the stream arrives as one chunk
RECURSIVE CountEvents(_)
CountEvents(lines) ==
    IF lines = <<>> THEN 0
    ELSE (IF DecodeLine(Head(lines)).ok THEN 1 ELSE 0) + CountEvents(Tail(lines))

WholeStreamEvents(s) == CountEvents(Split(StreamOf(s)))

\* C1: decoding is independent of chunking: once every byte of the stream has
\* been delivered, each data line has been decoded and applied exactly once,
\* wherever the chunk boundaries fell.
C1_ChunkingIndependent ==
    \A t \in Reading :
        turns[t].wire = <<>> => turns[t].applied = WholeStreamEvents(turns[t].script)

\* C2 as stated: after the user stops a turn the transcript is as long as it was
\* before the turn started, the accumulators are empty and the controller idle.
C2_StopRestoresLength ==
    \A t \in Slots :
        turns[t].pc = "aborted" =>
            /\ Len(messages) = Len(turns[t].base)
            /\ currentThinking = <<>> /\ currentResponse = <<>>
            /\ ~isLoading

\* C2 as amended: stopping a turn leaves the transcript exactly as it was just
\* before the stop, which still holds the user's question appended at
\* submission (the pre-turn transcript plus that one message when no complete
\* event was applied and no file was loaded during the turn); no partial text
\* is committed, the accumulators are empty and the controller is idle, also
\* after the aborted turn has unwound.
C2_StopLeavesTranscript ==
    /\ [](\A t \in Slots :
            turns[t].pc = "aborted" =>
                /\ currentThinking = <<>> /\ currentResponse = <<>>
                /\ ~isLoading
                /\ (~turns[t].completed /\ ~turns[t].reloaded =>
                        messages = Append(turns[t].base, UserMessage(t))))
    /\ [][StopGeneration => messages' = messages]_vars
    /\ [][\A t \in Slots :
            AbortUnwind(t) =>
                /\ messages' = messages
                /\ currentThinking' = <<>> /\ currentResponse' = <<>>
                /\ ~isLoading']_vars

\* a turn stopped mid-stream with a partial answer accumulated
C2_StoppedMidStream ==
    \E t \in Slots :
        /\ turns[t].pc = "aborted"
        /\ turns[t].fullResponse # <<>>
        /\ ~turns[t].completed /\ ~turns[t].reloaded

\* C3 as stated: a turn that ends in a transport failure, or that has received
\* a server error event, leaves the transcript exactly what it was before the
\* turn started.
C3_FailureRestoresTranscript ==
    /\ [][\A t \in Slots :
            (FetchFails(t) \/ ReadFails(t)) => messages' = turns[t].base]_vars
    /\ [](\A t \in Reading : turns[t].sawError => messages = turns[t].base)

\* C3 as amended: a failed turn adds nothing to the transcript beyond the
\* user's question appended at submission: a transport failure and the
\* application of a server error event each leave the transcript exactly as it
\* was immediately before them, so a turn whose request fails ends with the
\* pre-turn transcript plus the user's question.
C3_FailureAddsNothing ==
    /\ [][\A t \in Slots :
            (FetchFails(t) \/ ReadFails(t)) => messages' = messages]_vars
    /\ [](\A t \in Reading :
            ApplyEvent(Ctx(t), Body["error"]).messages = messages)
    /\ [](\A t \in Slots :
            turns[t].pc = "fetch" /\ ~turns[t].reloaded =>
                messages = Append(turns[t].base, UserMessage(t)))

\* a turn has failed and the transcript ends with its question
C3_TurnFailed ==
    /\ lastOutcome = "failed"
    /\ messages # <<>>
    /\ messages[Len(messages)].role = "user"

\* C4: once a server error event has been applied the turn is over: the loading
\* state is cleared and the stream is no longer read.
C4_ErrorEndsTurn ==
    \A t \in Reading : turns[t].sawError => ~isLoading

\* C5: the active evidence set is exactly the evidence extracted from the most
\* recent completed answer, and empty when there is none since the file was
\* loaded.
C5_EvidenceIsLatestAnswer ==
    highlights = IF lastAnswer.some THEN parseHighlights(lastAnswer.text) ELSE <<>>

\* a second completion has replaced the evidence of an earlier one
C5_EvidenceReplaced ==
    /\ lastAnswer.some
    /\ lastAnswer.text = <<"a">>
    /\ highlights = <<>>
    /\ \E i \in 1..Len(messages) :
           /\ messages[i].role = "assistant"
           /\ messages[i].content = cleanHighlightMarkers(TextPaged)

\* C6: the first question submitted after a file load is sent with the file
\* and without a session identifier.
C6_FirstQuestionSendsFile ==
    \A t \in InFlight :
        turns[t].first => turns[t].file # None /\ turns[t].sid = None

\* C7: the held session identifier is the one the latest completion carried
\* (a completion without one leaves it alone), every request carries the held
\* identifier, and a request carries the file exactly when none is held.
C7_SessionReuse ==
    /\ sdkSessionId = lastSid
    /\ \A t \in InFlight :
           /\ turns[t].sid = turns[t].heldSid
           /\ (turns[t].file # None <=> turns[t].heldSid = None)

\* a follow-up request that carries the session and omits the file
C7_FollowUpRequest ==
    \E t \in InFlight : turns[t].sid = "s1" /\ turns[t].file = None

HasPage(h) == h.pageNumber >= 1

\* "[{text: x}, {text: y, pageNumber: 7}, {text: z, pageNumber: 2}]"
TextSevenTwo == Mk(<<>>, <<"x">>) \o Mk(<<"7">>, <<"y">>) \o Mk(<<"2">>, <<"z">>)

\* the page after a first answer with the evidence [none, 7, 2]
SevenTwoPage ==
    ApplyEvent(FreshCtx, Ev("complete", TextSevenTwo, None, None)).currentPage

\* C8: a complete event sets the current page to the page number of the first
\* extracted span, in extraction order, that has one, and leaves it unchanged
\* when no span has one; the evidence [none, 7, 2] navigates to 7.
C8_NavigateToFirstPaged ==
    /\ \A t \in Completing :
            \E c \in {ApplyEvent(Ctx(t), PendingEvent(t).event)} :
            \E hs \in {parseHighlights(c.fullResponse)} :
                /\ (\A i \in 1..Len(hs) : ~HasPage(hs[i])) =>
                        c.currentPage = currentPage
                /\ \A i \in 1..Len(hs) :
                        (HasPage(hs[i]) /\ \A k \in 1..(i - 1) : ~HasPage(hs[k])) =>
                            c.currentPage = hs[i].pageNumber
    /\ SevenTwoPage = 7

\* a completion with evidence [none, 3, 1] has navigated to page 3
C8_NavigatedToThree ==
    /\ lastAnswer.some /\ lastAnswer.text = TextThree
    /\ Len(highlights) = 3
    /\ currentPage = 3
    /\ \E t \in Reading : turns[t].completed

\* C9: an evidence page number outside 1..pageCount is no page constraint: a
\* complete event never navigates to it, and the span is a highlight candidate
\* on every displayed page.
C9_OutOfRangeIsNoConstraint ==
    (pdfFile # None /\ ~docPending) =>
        /\ \A t \in Reading : \A ev \in CompleteEvents :
               \E c \in {ApplyEvent(Ctx(t), ev)} :
                   c.currentPage # currentPage => c.currentPage \in 1..numPages
        /\ \A i \in 1..Len(highlights) :
               (highlights[i].pageNumber # Undefined
                    /\ highlights[i].pageNumber \notin 1..numPages) =>
                   \A p \in 1..numPages :
                       \E k \in 1..Len(PageHighlights(highlights, p)) :
                           PageHighlights(highlights, p)[k] = highlights[i]

\* C10: at most one turn is in flight, and while one is awaiting its response
\* or reading its stream the loading state is set, so no question can be
\* submitted beside it and no turn's cleanup clears another's loading state.
C10_OneTurnInFlight ==
    /\ Cardinality(InFlight) <= 1
    /\ \A t \in InFlight : turns[t].pc \in {"fetch", "read"} => isLoading

\* right after a stop: the aborted turn has not unwound yet
C10_StoppedNotUnwound ==
    \E t \in Slots : turns[t].pc = "aborted" /\ ~isLoading /\ pdfFile # None

\* C11: each complete event appends an assistant message whose content is the
\* marker-stripped final text, immediately preceded by a reasoning message
\* exactly when the turn's reasoning accumulator is non-empty; the answer
\* message is appended also when the final text is empty or has no evidence.
C11_CompleteAppendsAnswer ==
    \A t \in Completing :
        \E ev \in {PendingEvent(t).event} :
        \E c \in {ApplyEvent(Ctx(t), ev)} :
        \E final \in {IF ev.content # <<>> THEN ev.content ELSE turns[t].fullResponse} :
        \E answer \in {[role |-> "assistant", content |-> cleanHighlightMarkers(final)]} :
            IF turns[t].fullThinking # <<>>
            THEN c.messages =
                    messages \o <<[role |-> "thinking",
                                   content |-> turns[t].fullThinking], answer>>
            ELSE c.messages = Append(messages, answer)

\* a completion has appended its reasoning message and then its answer
C11_AnswerAfterReasoning ==
    /\ \E t \in Reading : turns[t].completed
    /\ Len(messages) >= 2
    /\ messages[Len(messages)] =
           [role |-> "assistant", content |-> cleanHighlightMarkers(TextPaged)]
    /\ messages[Len(messages) - 1] = [role |-> "thinking", content |-> <<"r">>]

\* C12: on complete the final answer text is the event's own content when the
\* event carries one, otherwise the concatenation of this turn's answer deltas;
\* evidence extraction, navigation and the appended assistant message all use
\* that final text.
C12_FinalTextFromEvent ==
    \A t \in Reading : \A ev \in CompleteEvents :
        \E c \in {ApplyEvent(Ctx(t), ev)} :
        \E final \in {IF ev.hasContent THEN ev.content ELSE turns[t].fullResponse} :
        \E hs \in {parseHighlights(final)} :
            /\ c.fullResponse = final
            /\ c.highlights = hs
            /\ c.currentPage = IF FirstPageHighlight(hs) # 0
                               THEN hs[FirstPageHighlight(hs)].pageNumber
                               ELSE currentPage
            /\ c.messages[Len(c.messages)].content = cleanHighlightMarkers(final)

\* C13: a malformed payload line is dropped without changing any controller
\* state and without ending the turn, and every well-formed line that follows
\* it in the stream, in the same chunk or in later chunks, is still decoded and
\* applied: once the whole stream with the malformed line has been delivered,
\* the complete event that follows the line has been applied.
C13_MalformedLineDropped ==
    \A t \in Reading :
        /\ ProcessLine(Ctx(t), SubSeq(BrokenLine, 1, Len(BrokenLine) - 1)) = Ctx(t)
        /\ (turns[t].script = "garbled" /\ turns[t].wire = <<>>) =>
                /\ isLoading
                /\ turns[t].completed
                /\ turns[t].applied = 1

IsPrefix(s, t) == Len(s) <= Len(t) /\ SubSeq(t, 1, Len(s)) = s

\* C14 as stated: the transcript is append-only: every operation, a document
\* load included, leaves the previous transcript as a prefix of the new one.
C14_AppendOnly == [][IsPrefix(messages, messages')]_vars

\* C14 as amended: the transcript is append-only between document loads: every
\* operation other than a document load (submit, delta, complete, error,
\* cancel, failure, page change) leaves the previous transcript as a prefix of
\* the new one, and a document load empties the transcript.
C14_AppendOnlyBetweenLoads ==
    [][IF \E f \in Files : HandleFileUpload(f)
       THEN messages' = <<>>
       ELSE IsPrefix(messages, messages')]_vars

\* a document load has emptied a transcript that held a turn's messages
C14_TranscriptEmptiedByLoad ==
    /\ messages = <<>>
    /\ pdfFile # None
    /\ ~askedSinceLoad
    /\ lastOutcome = "ended"

\* C15: user-driven page changes are bounded: the back action yields
\* max(1, currentPage - 1), the forward action min(pageCount, currentPage + 1),
\* so from a page in 1..pageCount forward and back never leave 1..pageCount.
C15_PageChangesBounded ==
    [][/\ PageBack =>
            currentPage' = IF currentPage - 1 >= 1 THEN currentPage - 1 ELSE 1
       /\ PageForward =>
            currentPage' = IF currentPage + 1 <= numPages THEN currentPage + 1
                           ELSE numPages
       /\ ((PageBack \/ PageForward) /\ currentPage \in 1..numPages) =>
            currentPage' \in 1..numPages]_vars

\* the forward button has moved the loaded document to page 2
C15_PagedForward ==
    /\ pdfFile # None /\ ~docPending /\ numPages = 3
    /\ ~lastAnswer.some
    /\ currentPage = 2

Fragments ==
    {<<"x", " ", "x">>, <<"t", "h", "e">>, <<"Y", "-", "y", " ", "z", "!">>}

\* the evidence sets an answer of the model can leave active
EvidenceSets ==
    {<<>>} \cup {parseHighlights(ev.content) : ev \in CompleteEvents}
           \cup {parseHighlights(TextThree)}

\* the pages that can be displayed: those of the document, and the page 4 an
\* answer can navigate to
Pages == 1..4

\* on every page and for every evidence set, a fragment is highlighted only
\* if a span has no page number or the number of that page
FilterRespected ==
    \A hs \in EvidenceSets : \A p \in Pages : \A str \in Fragments :
        /\ IsHighlighted(str, hs, p) =>
               \E i \in 1..Len(hs) : ~HasPage(hs[i]) \/ hs[i].pageNumber = p
        /\ (\A i \in 1..Len(hs) : HasPage(hs[i]) /\ hs[i].pageNumber # p) =>
               ~IsHighlighted(str, hs, p)

\* C17: the fragment-highlight predicate respects the page filter: a fragment
\* on the displayed page p is highlighted only if the active evidence holds a
\* span with no page number or with page number p; when every active span is
\* tagged with a different page, no fragment on p is highlighted.
C17_PageFilter ==
    /\ highlights \in EvidenceSets
    /\ currentPage \in Pages
    /\ FilterRespected

\* the only active span is tagged with page 2: "x x" is marked on page 2 and
\* not on the displayed page
C17_OtherPageDisplayed ==
    /\ Len(highlights) = 1
    /\ HasPage(highlights[1]) /\ highlights[1].pageNumber = 2
    /\ currentPage # 2
    /\ ~customTextRenderer(<<"x", " ", "x">>)
    /\ IsHighlighted(<<"x", " ", "x">>, highlights, 2)

SalesSpan == [text |-> SalesText, pageNumber |-> 3]

\* "Net Sales Were $5,000,000"
FragmentMillions ==
    <<"N", "e", "t", " ", "S", "a", "l", "e", "s", " ", "W", "e", "r", "e", " ",
      "$", "5", ",", "0", "0", "0", ",", "0", "0", "0">>

\* "Net Sales Were $5M"
FragmentSame ==
    <<"N", "e", "t", " ", "S", "a", "l", "e", "s", " ", "W", "e", "r", "e", " ",
      "$", "5", "M">>

\* "Net Sales Were"
FragmentShort ==
    <<"N", "e", "t", " ", "S", "a", "l", "e", "s", " ", "W", "e", "r", "e">>

\* C18 as stated: with the active span {"Net sales were $5M", page 3}, the
\* fragment "Net Sales Were $5,000,000" displayed on page 3 is highlighted.
C18_MillionsHighlighted ==
    (highlights = <<SalesSpan>> /\ currentPage = 3) =>
        customTextRenderer(FragmentMillions)

\* C18 as amended: with the active span {"Net sales were $5M", page 3}, on
\* page 3 the fragments "Net Sales Were $5M" and "Net Sales Were" are
\* highlighted (after normalization the span text contains them), and the
\* fragment "Net Sales Were $5,000,000" is not: its normalized form and the
\* span's do not contain one another, and its word "5000000" matches no word
\* of the span.
C18_SameTextHighlighted ==
    (highlights = <<SalesSpan>> /\ currentPage = 3) =>
        /\ customTextRenderer(FragmentSame)
        /\ customTextRenderer(FragmentShort)
        /\ ~customTextRenderer(FragmentMillions)

\* the answer citing "Net sales were $5M" on page 3 is displayed on page 3
C18_SalesSpanDisplayed ==
    /\ highlights = <<SalesSpan>>
    /\ currentPage = 3
    /\ numPages = 3
    /\ customTextRenderer(FragmentSame)

\* C19 as stated: the fragment "the" is never highlighted, on any page and for
\* any active evidence set.
C19_TheNeverHighlighted ==
    \A p \in {currentPage} \cup 1..numPages :
        ~IsHighlighted(<<"t", "h", "e">>, highlights, p)

\* "the" has no word of length >= 4, and for every evidence set and page it is
\* highlighted exactly when a candidate span contains it or is contained in it
TheBySubstring ==
    /\ Words(normalize(<<"t", "h", "e">>)) = <<>>
    /\ \A hs \in EvidenceSets : \A p \in Pages :
           IsHighlighted(<<"t", "h", "e">>, hs, p) <=>
               \E i \in 1..Len(hs) :
                   /\ hs[i].pageNumber \in {Undefined, 0, p}
                   /\ \E hNorm \in {normalize(hs[i].text)} :
                          \/ Includes(hNorm, <<"t", "h", "e">>)
                          \/ Includes(<<"t", "h", "e">>, hNorm)

\* C19 as amended: the fragment "the" has no word of length >= 4, so the word
\* test never highlights it: on a page it is highlighted exactly when the
\* normalized text of some candidate span of that page contains "the" or is
\* contained in "the".
C19_TheOnlyBySubstring ==
    /\ highlights \in EvidenceSets /\ currentPage \in Pages
    /\ customTextRenderer(<<"t", "h", "e">>) =>
           \E i \in 1..Len(highlights) :
               highlights[i].pageNumber \in {Undefined, 0, currentPage}
    /\ TheBySubstring

\* the active span "the x" marks the fragment "the", while the span "x" of an
\* earlier answer would not
C19_TheHighlighted ==
    /\ highlights = parseHighlights(TextThe)
    /\ customTextRenderer(<<"t", "h", "e">>)
    /\ ~IsHighlighted(<<"t", "h", "e">>, parseHighlights(TextPaged), 2)

Repeat(c, n) == [i \in 1..n |-> c]

\* a marker written with lead "<" before the word highlight, gt ">" after the
\* opening tag, lt "<" before the slash and cgt ">" at the end
Marker(lead, pg, gt, body, lt, cgt) ==
    Repeat("<", lead) \o <<"highlight">>
    \o (IF pg = <<>> THEN <<>> ELSE <<" ", "page=">> \o pg)
    \o Repeat(">", gt) \o body
    \o Repeat("<", lt) \o <<"/", "highlight">> \o Repeat(">", cgt)

\* every variant of the marker around "Net sales were $5M" yields the one
\* span, and two markers yield their spans in the order of the text
VariantsExtract ==
    \A lead \in 2..MaxRun : \A gt \in 1..MaxRun :
    \A lt \in 1..2 : \A cgt \in 1..MaxRun :
        /\ parseHighlights(<<"a", " ">>
                           \o Marker(lead, <<"3">>, gt, SalesText, lt, cgt)
                           \o <<" ", "b">>) = <<SalesSpan>>
        /\ parseHighlights(<<"a", " ">>
                           \o Marker(lead, <<>>, gt, SalesText, lt, cgt)
                           \o <<" ", "b">>)
               = <<[text |-> SalesText, pageNumber |-> Undefined]>>
        /\ parseHighlights(Marker(lead, <<"7">>, gt, <<"y">>, lt, cgt)
                           \o <<" ">>
                           \o Marker(2, <<"2">>, 2, <<"z">>, 2, 2)
                           \o Marker(lead, <<>>, gt, <<"y">>, lt, cgt))
               = <<[text |-> <<"y">>, pageNumber |-> 7],
                   [text |-> <<"z">>, pageNumber |-> 2],
                   [text |-> <<"y">>, pageNumber |-> Undefined]>>

\* C20: for every accepted marker variant (opening tag closed by one or more
\* ">", with or without page=N; closing tag with "<<" or "<" and one or more
\* trailing ">"), extraction from text with one marker around
\* "Net sales were $5M" with page=3 yields exactly the span
\* {"Net sales were $5M", 3}, and spans come in first-occurrence order; the
\* evidence of an answer with that text is that one span.
C20_MarkerVariants ==
    /\ VariantsExtract
    /\ (lastAnswer.some /\ lastAnswer.text = TextSales) => highlights = <<SalesSpan>>

\* the answer "a <<highlight page=3>>Net sales were $5M<</highlight>> b" has
\* completed and its span is the active evidence
C20_SalesSpanExtracted ==
    /\ lastAnswer.some /\ lastAnswer.text = TextSales
    /\ highlights = <<SalesSpan>>
    /\ messages[Len(messages)].content = cleanHighlightMarkers(TextSales)

\* pieces of answer text, each with the text stripMarkers is to show for it:
\* plain text, and closed markers in several spellings
ClosedPieces ==
    {[text |-> <<"x">>, shown |-> <<"x">>],
     [text |-> <<" ">>, shown |-> <<" ">>],
     [text |-> Mk(<<>>, <<"x">>), shown |-> <<"\n", ">", " ", "x", "\n">>],
     [text  |-> Mk(<<"2">>, <<" ", "x", " ">>),
      shown |-> <<"\n", ">", " ", "**Page ", "2", ":** ", "x", "\n">>],
     [text  |-> Marker(2, <<>>, 1, <<"y">>, 1, 1),
      shown |-> <<"\n", ">", " ", "y", "\n">>],
     [text |-> Mk(<<>>, <<" ">>), shown |-> <<"\n", ">", " ", "\n">>]}

\* an opening tag that no closing tag follows: "<<highlight page=2>>x"
UnclosedPiece ==
    [text  |-> <<"<", "<", "highlight", " ", "page=", "2", ">", ">", "x">>,
     shown |-> <<"<", "<", "highlight", " ", "page=", "2", ">", ">", "x">>]

RECURSIVE Joined(_, _)
Joined(pieces, field) ==
    IF pieces = <<>> THEN <<>>
    ELSE Head(pieces)[field] \o Joined(Tail(pieces), field)

\* the sequences of at most MaxPieces pieces
PieceSeqs(S) == UNION {[1..n -> S] : n \in 0..MaxPieces}

OpeningWord == <<"<", "<", "highlight">>

\* C21 as stated: the output of stripMarkers for text whose markers are all
\* closed never contains "<<highlight", and marker-like text that never closes
\* is left untouched.  The markers of every answer of the streams are closed,
\* so no assistant message of the transcript contains "<<highlight".
C21_StripLeavesNoMarker ==
    /\ \A i \in 1..Len(messages) :
           messages[i].role = "assistant" =>
               ~Includes(messages[i].content, OpeningWord)
    /\ cleanHighlightMarkers(UnclosedPiece.text) = UnclosedPiece.text

\* stripMarkers shows each closed marker that is not nested as its quote, and
\* leaves plain text and a trailing unclosed opening as they are
StripRenders ==
    /\ \A ps \in PieceSeqs(ClosedPieces) :
           /\ cleanHighlightMarkers(Joined(ps, "text")) = Joined(ps, "shown")
           /\ ~Includes(cleanHighlightMarkers(Joined(ps, "text")), OpeningWord)
           /\ cleanHighlightMarkers(Joined(ps, "text") \o UnclosedPiece.text)
                  = Joined(ps, "shown") \o UnclosedPiece.text
    /\ cleanHighlightMarkers(NestedText)
           = <<"\n", ">", " ", "a", " ", "<", "<", "highlight", ">", ">", "b", "\n",
               " ", "c", "<", "<", "/", "highlight", ">", ">">>

\* the final texts of the answers the streams carry
AnswerTexts == {ev.content : ev \in CompleteEvents} \cup {<<"a">>, TextThree}

\* what stripMarkers shows for them
ShownAnswers == {cleanHighlightMarkers(text) : text \in AnswerTexts}

\* none of them but the nested one is shown with an opening tag left
AnswersRendered ==
    \A text \in AnswerTexts \ {NestedText} :
        ~Includes(cleanHighlightMarkers(text), OpeningWord)

\* C21 as amended: stripMarkers replaces every recognized marker, matched from
\* an opening tag to the nearest closing tag, by its quote and leaves all other
\* text untouched: for text whose markers are all closed and not nested the
\* output never contains "<<highlight"; an opening tag that no closing tag
\* follows is left untouched; a marker nested in the body of another stays in
\* the quote as literal text.  Every assistant message of the transcript is
\* such an output.
C21_StripRendersMarkers ==
    /\ StripRenders
    /\ AnswersRendered
    /\ \A i \in 1..Len(messages) :
           messages[i].role = "assistant" => messages[i].content \in ShownAnswers

\* the transcript shows the answer that cited page 3 as a quote
C21_QuoteShown ==
    \E i \in 1..Len(messages) :
        /\ messages[i].role = "assistant"
        /\ messages[i].content =
               <<"a", " ", "\n", ">", " ", "**Page ", "3", ":** ">> \o SalesText
               \o <<"\n", " ", "b">>

\* characters of every class normalize tells apart: an upper-case and a
\* lower-case letter, a digit, two kinds of white space, punctuation
NormalizeAlphabet == {"A", "b", "7", " ", "\n", "$"}

\* the strings of at most n characters
Strings(n) == UNION {[1..k -> NormalizeAlphabet] : k \in 0..n}

\* the texts of the spans an answer of the model can leave active
EvidenceTexts == UNION {{hs[i].text : i \in 1..Len(hs)} : hs \in EvidenceSets}

\* only lower-case ASCII letters, digits and single interior spaces
Normalized(t) ==
    /\ \A i \in 1..Len(t) : t[i] \in {LowerCase[k] : k \in 1..26} \cup Digit \cup {" "}
    /\ t # <<>> => t[1] # " " /\ t[Len(t)] # " "
    /\ \A i \in 1..(Len(t) - 1) : ~(t[i] = " " /\ t[i + 1] = " ")

\* normalize on every short string, every fragment and every evidence text
NormalizeIdempotent ==
    \A s \in Strings(MaxChars) \cup Fragments \cup EvidenceTexts
               \cup {FragmentMillions} :
        \E n \in {normalize(s)} : normalize(n) = n /\ Normalized(n)

\* C22: normalize is idempotent, normalize(normalize(s)) = normalize(s), and
\* its output holds only lower-case ASCII letters, digits and single interior
\* spaces: for every short string over the character classes, and for the
\* text of every span the renderer normalizes, the active spans among them.
C22_NormalizeIdempotent ==
    /\ NormalizeIdempotent
    /\ \A i \in 1..Len(highlights) : highlights[i].text \in EvidenceTexts

\* the renderer normalizes the active span "Net sales were $5M", whose
\* upper-case letters, punctuation and spaces normalize changes
C22_SalesSpanNormalized ==
    /\ \E i \in 1..Len(highlights) : highlights[i].text = SalesText
    /\ normalize(SalesText) # SalesText
    /\ normalize(SalesText)
           = <<"n", "e", "t", " ", "s", "a", "l", "e", "s", " ", "w", "e", "r", "e",
               " ", "5", "m">>
    /\ normalize(normalize(SalesText)) = normalize(SalesText)

\* C23: every turn eventually returns to idle: once a question is submitted the
\* loading flag is eventually cleared, no call of sendQuestion is left pending
\* and the input is enabled again, whichever way the awaits of the turn settle.
C23_TurnReturnsToIdle ==
    isLoading ~> (~isLoading /\ InFlight = {} /\ InputEnabled)

\* a turn whose stream closed without a complete event is over: the transcript
\* holds the question alone and the input is enabled
C23_IdleAfterCutShort ==
    /\ lastOutcome = "ended"
    /\ ~lastAnswer.some
    /\ Len(messages) = 1
    /\ currentResponse # <<>>
    /\ ~isLoading /\ InFlight = {} /\ InputEnabled

\* C24: whenever the controller is idle (not loading), both published
\* accumulators, the live reasoning and the live answer, are empty.
C24_IdleAccumulatorsEmpty ==
    ~isLoading => currentThinking = <<>> /\ currentResponse = <<>>

\* C25: whenever a document is loaded (its page count is known), the current
\* page lies within it: 1 <= currentPage <= numPages.
C25_PageWithinDocument ==
    (pdfFile # None /\ ~docPending) => 1 <= currentPage /\ currentPage <= numPages

\* C26: once a new document is loaded while a turn is in flight, no event of
\* that turn adds a message to the transcript, replaces the evidence set or
\* changes the current page: a chunk read by a turn that was started before the
\* load leaves the three alone.
C26_ReloadIsolates ==
    [][\A t \in Slots :
           (/\ turns[t].reloaded
            /\ turns[t].pc = "read"
            /\ turns'[t].pc = "read"
            /\ turns'[t].wire # turns[t].wire)
           => /\ messages' = messages
              /\ highlights' = highlights
              /\ currentPage' = currentPage]_vars

\* the messages the transcript has gained since turn t was submitted (all of
\* them when a file load has emptied the transcript in between)
AddedBy(t) ==
    IF turns[t].reloaded THEN messages
    ELSE SubSeq(messages, Len(turns[t].base) + 1, Len(messages))

WithRole(msgs, role) == SelectSeq(msgs, LAMBDA m : m.role = role)

\* C27: each turn contributes at most one assistant message and at most one
\* reasoning message to the transcript.
C27_OneAnswerPerTurn ==
    \A t \in Reading :
        /\ Len(WithRole(AddedBy(t), "assistant")) <= 1
        /\ Len(WithRole(AddedBy(t), "thinking")) <= 1
====
